---- MODULE Spec2Model ----
(***************************************************************************)
(* Model of src/util.py: the two browser-automation procedures             *)
(*   get_m3u8_url  (StreamURLFinder / findManifestUrl)                     *)
(*   unmute_video  (AutoUnmuter / attemptUnmute)                           *)
(* Each procedure is a sequential process whose program counter walks the  *)
(* statements of the function.  Every call into the browser driver either  *)
(* returns or raises an Exception; the choice is the environment's.        *)
(***************************************************************************)
EXTENDS Integers, Sequences, FiniteSets, TLC

\* ---------------------------------------------------------------- bounds
\* Largest number of requests the browsers' network layers capture in a run.
MaxReq == 3
\* Largest configured livestream.wait_time.
MaxWait == 1
\* Largest number of captured requests when both procedures run side by side.
MaxBothReq == 1

\* ------------------------------------------------------ program constants
\* time.sleep(WAIT_TIME + 5): the fixed safety margin.
SafetyMargin == 5
\* for _ in range(5): the number of hover attempts.
HoverTries == 5

\* ----------------------------------------------------------------- values
\* Python's None for an Optional[str]; a present string u is Some(u).
None == <<>>
Some(u) == <<u>>

\* ".m3u8" as a sequence of characters.
Marker == <<".", "m", "3", "u", "8">>

\* The URLs the network layer may report, as sequences of characters.
UrlMp4 == <<"a", ".", "m", "p", "4">>
UrlM3u8B == <<"b", ".", "m", "3", "u", "8">>
UrlM3u8C == <<"c", ".", "m", "3", "u", "8", "?", "t">>
Urls == {UrlMp4, UrlM3u8B, UrlM3u8C}

\* request.response is None until a response has arrived.
Responses == {"None", "Response"}
Requests == [url : Urls, response : Responses]

\* The browser sessions that can exist: one per procedure at most.
SessionIds == {1, 2}
NoDriver == 0

\* ------------------------------------------------------- pure operators
\* Python's  sub in s  for strings.
Contains(s, sub) ==
    \E i \in 1..(Len(s) - Len(sub) + 1) : SubSeq(s, i, i + Len(sub) - 1) = sub

\* Truthiness of request.response (None is falsy, a Response object truthy).
TruthyResponse(r) == r # "None"

\* Variant of IsMatch: the response of the request is not looked at.
IsMatchIgnoringResponse(req) == Contains(req.url, Marker)

\* The condition of the if inside the for loop of get_m3u8_url.
IsMatch(req) == TruthyResponse(req.response) /\ Contains(req.url, Marker)

\* The for loop of get_m3u8_url: m3u8_url after the loop.
RECURSIVE ScanFrom(_, _)
ScanFrom(reqs, i) ==
    IF i > Len(reqs) THEN None
    ELSE IF IsMatch(reqs[i]) THEN Some(reqs[i].url)
    ELSE ScanFrom(reqs, i + 1)

FirstMatch(reqs) == ScanFrom(reqs, 1)

\* Truthiness of m3u8_url in  if m3u8_url:  (None and "" are falsy).
TruthyUrl(m) == m # None /\ Len(m[1]) > 0

\* The value the if/else after the loop returns.
ScanResult(reqs) == IF TruthyUrl(FirstMatch(reqs)) THEN FirstMatch(reqs) ELSE None

\* ------------------------------------------------------------- variables
VARIABLES
    autoUnmute,     \* AUTO_UNMUTE
    waitTime,       \* WAIT_TIME
    sessState,      \* per browser session: "unused", "open", "closed"
    sessOps,        \* per browser session: the driver operations invoked on it
    sessRequests,   \* per browser session: driver.requests, in capture order
    fpc,            \* get_m3u8_url: position
    fDriver,        \* get_m3u8_url: driver
    fElapsed,       \* get_m3u8_url: time slept since navigation
    fScanned,       \* get_m3u8_url: Some(list read by the loop), None before the loop ran
    fPending,       \* get_m3u8_url: value of the executed return statement
    fHandler,       \* get_m3u8_url: the except block has run
    fErrAt,         \* get_m3u8_url: statement whose exception was handled
    fResult,        \* get_m3u8_url: value received by the caller
    fRaisedAt,      \* get_m3u8_url: statement whose exception reached the caller
    upc,            \* unmute_video: position
    uDriver,        \* unmute_video: driver
    uIter,          \* unmute_video: iterations of the for loop begun
    uHovers,        \* unmute_video: hovers performed
    uFinds,         \* unmute_video: waits for the mute button started
    uClickTries,    \* unmute_video: mute_svg.click() calls
    uClicks,        \* unmute_video: mute_svg.click() calls that returned
    uWarnings,      \* unmute_video: retry warnings logged
    uHandler,       \* unmute_video: the outer except block has run
    uErrAt,         \* unmute_video: statement whose exception the outer block handled
    uOutcome,       \* unmute_video: "none", "disabled", "success", "exhausted", "failed"
    uRaisedAt,      \* unmute_video: statement whose exception reached the caller
    uFoundAt,       \* unmute_video: iteration whose mute-button wait last returned (0: none)
    uTrace          \* unmute_video: the statements before the loop that returned, in order

cfgVars == <<autoUnmute, waitTime>>
sessVars == <<sessState, sessOps, sessRequests>>
fVars == <<fpc, fDriver, fElapsed, fScanned, fPending, fHandler, fErrAt, fResult, fRaisedAt>>
uVars == <<upc, uDriver, uIter, uHovers, uFinds, uClickTries, uClicks, uWarnings,
           uHandler, uErrAt, uOutcome, uRaisedAt, uFoundAt, uTrace>>
vars == <<cfgVars, sessVars, fVars, uVars>>

\* ------------------------------------------------------------------ Init
Init ==
    /\ autoUnmute \in BOOLEAN
    /\ waitTime \in 0..MaxWait
    /\ sessState = [s \in SessionIds |-> "unused"]
    /\ sessOps = [s \in SessionIds |-> {}]
    /\ sessRequests = [s \in SessionIds |-> <<>>]
    /\ fpc = "launch"
    /\ fDriver = NoDriver
    /\ fElapsed = 0
    /\ fScanned = None
    /\ fPending = None
    /\ fHandler = FALSE
    /\ fErrAt = "none"
    /\ fResult = None
    /\ fRaisedAt = "none"
    /\ upc = "check"
    /\ uDriver = NoDriver
    /\ uIter = 0
    /\ uHovers = 0
    /\ uFinds = 0
    /\ uClickTries = 0
    /\ uClicks = 0
    /\ uWarnings = 0
    /\ uHandler = FALSE
    /\ uErrAt = "none"
    /\ uOutcome = "none"
    /\ uRaisedAt = "none"
    /\ uFoundAt = 0
    /\ uTrace = <<>>

\* ------------------------------------------------------- browser sessions
\* webdriver.Chrome(...) starts a browser process of its own.
NewSession == CHOOSE s \in SessionIds :
    /\ sessState[s] = "unused"
    /\ \A t \in SessionIds : sessState[t] = "unused" => s <= t

\* A driver method is invoked on session s.
Invoke(s, op) == sessOps' = [sessOps EXCEPT ![s] = @ \cup {op}]

TotalCaptured == Len(sessRequests[1]) + Len(sessRequests[2])

\* The network layer of a navigated, running browser records a request.
Capture(s, limit) ==
    /\ sessState[s] = "open"
    /\ "get" \in sessOps[s]
    /\ TotalCaptured < limit
    /\ \E r \in Requests : sessRequests' = [sessRequests EXCEPT ![s] = Append(@, r)]
    /\ UNCHANGED <<cfgVars, sessState, sessOps, fVars, uVars>>

\* The response of a recorded request arrives.
Respond(s) ==
    /\ sessState[s] = "open"
    /\ \E i \in 1..Len(sessRequests[s]) :
        /\ sessRequests[s][i].response = "None"
        /\ sessRequests' = [sessRequests EXCEPT ![s][i].response = "Response"]
    /\ UNCHANGED <<cfgVars, sessState, sessOps, fVars, uVars>>

\* --------------------------------------------------------- get_m3u8_url
\* Variant of FExcept: the handler returns without the cleanup step.
FExceptSkippingQuit(at) ==
    /\ fHandler' = TRUE
    /\ fErrAt' = at
    /\ fPending' = None
    /\ fpc' = "returned"

\* Variant of FExcept: the handler lets the exception reach the caller.
FExceptReraising(at) ==
    /\ fHandler' = TRUE
    /\ fErrAt' = at
    /\ fPending' = None
    /\ fpc' = "raised"

\* except Exception as e: log, return None; control then reaches finally.
FExcept(at) ==
    /\ fHandler' = TRUE
    /\ fErrAt' = at
    /\ fPending' = None
    /\ fpc' = "finally"

\* Variant of FLaunch: a browser that is already running is taken over
\* instead of a new one being started.
FLaunchSharingSession ==
    /\ fpc = "launch"
    /\ \/ /\ IF \E s \in SessionIds : sessState[s] = "open"
             THEN /\ fDriver' = CHOOSE s \in SessionIds : sessState[s] = "open"
                  /\ UNCHANGED sessState
             ELSE /\ sessState' = [sessState EXCEPT ![NewSession] = "open"]
                  /\ fDriver' = NewSession
          /\ fpc' = "get"
          /\ UNCHANGED fRaisedAt
       \/ /\ fpc' = "raised"
          /\ fRaisedAt' = "launch"
          /\ UNCHANGED <<sessState, fDriver>>
    /\ UNCHANGED <<cfgVars, sessOps, sessRequests, fElapsed, fScanned, fPending,
                   fHandler, fErrAt, fResult, uVars>>

\* driver = webdriver.Chrome(options=chrome_options), before the try block.
FLaunch ==
    /\ fpc = "launch"
    /\ \/ /\ sessState' = [sessState EXCEPT ![NewSession] = "open"]
          /\ fDriver' = NewSession
          /\ fpc' = "get"
          /\ UNCHANGED fRaisedAt
       \/ /\ fpc' = "raised"
          /\ fRaisedAt' = "launch"
          /\ UNCHANGED <<sessState, fDriver>>
    /\ UNCHANGED <<cfgVars, sessOps, sessRequests, fElapsed, fScanned, fPending,
                   fHandler, fErrAt, fResult, uVars>>

\* driver.get(page_url)
FGet ==
    /\ fpc = "get"
    /\ Invoke(fDriver, "get")
    /\ \/ /\ fpc' = "sleep"
          /\ UNCHANGED <<fPending, fHandler, fErrAt>>
       \/ FExcept("get")
    /\ UNCHANGED <<cfgVars, sessState, sessRequests, fDriver, fElapsed, fScanned,
                   fResult, fRaisedAt, uVars>>

\* Variant of FSleep: the safety margin is left out of the wait.
FSleepWithoutMargin ==
    /\ fpc = "sleep"
    /\ \/ /\ fElapsed' = waitTime
          /\ fpc' = "scan"
          /\ UNCHANGED <<fPending, fHandler, fErrAt>>
       \/ /\ FExcept("sleep")
          /\ \E t \in 0..waitTime : fElapsed' = t
    /\ UNCHANGED <<cfgVars, sessVars, fDriver, fScanned, fResult, fRaisedAt, uVars>>

\* time.sleep(WAIT_TIME + 5)
FSleep ==
    /\ fpc = "sleep"
    /\ \/ /\ fElapsed' = waitTime + SafetyMargin
          /\ fpc' = "scan"
          /\ UNCHANGED <<fPending, fHandler, fErrAt>>
       \/ /\ FExcept("sleep")
          /\ \E t \in 0..(waitTime + SafetyMargin) : fElapsed' = t
    /\ UNCHANGED <<cfgVars, sessVars, fDriver, fScanned, fResult, fRaisedAt, uVars>>

\* Variant of FScan: a scan without a match raises instead of returning None.
FScanRaisingOnNoMatch ==
    /\ fpc = "scan"
    /\ Invoke(fDriver, "requests")
    /\ \/ /\ fScanned' = Some(sessRequests[fDriver])
          /\ IF FirstMatch(sessRequests[fDriver]) = None
             THEN FExcept("scan")
             ELSE /\ fPending' = ScanResult(sessRequests[fDriver])
                  /\ fpc' = "finally"
                  /\ UNCHANGED <<fHandler, fErrAt>>
       \/ /\ FExcept("scan")
          /\ UNCHANGED fScanned
    /\ UNCHANGED <<cfgVars, sessState, sessRequests, fDriver, fElapsed, fResult,
                   fRaisedAt, uVars>>

\* m3u8_url = None; for request in driver.requests: ...; if m3u8_url: return ...
FScan ==
    /\ fpc = "scan"
    /\ Invoke(fDriver, "requests")
    /\ \/ /\ fScanned' = Some(sessRequests[fDriver])
          /\ fPending' = ScanResult(sessRequests[fDriver])
          /\ fpc' = "finally"
          /\ UNCHANGED <<fHandler, fErrAt>>
       \/ /\ FExcept("scan")
          /\ UNCHANGED fScanned
    /\ UNCHANGED <<cfgVars, sessState, sessRequests, fDriver, fElapsed, fResult,
                   fRaisedAt, uVars>>

\* finally: driver.quit(); then the pending return value reaches the caller.
\* An exception of driver.quit() replaces the pending return; whether the
\* browser process is gone after a failed quit is the driver's business.
FQuit ==
    /\ fpc = "finally"
    /\ Invoke(fDriver, "quit")
    /\ \/ /\ sessState' = [sessState EXCEPT ![fDriver] = "closed"]
          /\ fResult' = fPending
          /\ fpc' = "returned"
          /\ UNCHANGED fRaisedAt
       \/ /\ \E st \in {"open", "closed"} :
                sessState' = [sessState EXCEPT ![fDriver] = st]
          /\ fpc' = "raised"
          /\ fRaisedAt' = "quit"
          /\ UNCHANGED fResult
    /\ UNCHANGED <<cfgVars, sessRequests, fDriver, fElapsed, fScanned, fPending,
                   fHandler, fErrAt, uVars>>

Finder == FLaunch \/ FGet \/ FSleep \/ FScan \/ FQuit

FinderDone == fpc \in {"returned", "raised"}

\* --------------------------------------------------------- unmute_video
\* Variant of UExcept: after the handler the hover loop is entered all the same.
UExceptResuming(at) ==
    /\ uHandler' = TRUE
    /\ uErrAt' = at
    /\ uOutcome' = "failed"
    /\ upc' = "hover"

\* except Exception as e (outer): log; then the closing log line and return.
UExcept(at) ==
    /\ uHandler' = TRUE
    /\ uErrAt' = at
    /\ uOutcome' = "failed"
    /\ upc' = "returned"

\* Variant of UNextIter: the loop bound is off by one.
UNextIterOffByOne ==
    IF uIter <= HoverTries
    THEN /\ uIter' = uIter + 1
         /\ upc' = "hover"
         /\ UNCHANGED uOutcome
    ELSE /\ upc' = "returned"
         /\ uOutcome' = "exhausted"
         /\ UNCHANGED uIter

\* The head of  for _ in range(5):  begins the next iteration, or the loop
\* is exhausted and the function runs to its end.
UNextIter ==
    IF uIter < HoverTries
    THEN /\ uIter' = uIter + 1
         /\ upc' = "hover"
         /\ UNCHANGED uOutcome
    ELSE /\ upc' = "returned"
         /\ uOutcome' = "exhausted"
         /\ UNCHANGED uIter

\* except Exception (inner): log the retry warning, go on with the loop.
UInnerExcept ==
    /\ uWarnings' = uWarnings + 1
    /\ UNextIter

\* Variant of UCheck: the flag is not consulted.
UCheckIgnoringFlag ==
    /\ upc = "check"
    /\ upc' = "launch"
    /\ UNCHANGED <<cfgVars, sessVars, fVars, uDriver, uIter, uHovers, uFinds,
                   uClickTries, uClicks, uWarnings, uHandler, uErrAt, uOutcome,
                   uRaisedAt>>
    /\ UNCHANGED <<uFoundAt, uTrace>>

\* if not AUTO_UNMUTE: return
UCheck ==
    /\ upc = "check"
    /\ IF ~autoUnmute
       THEN /\ upc' = "returned"
            /\ uOutcome' = "disabled"
       ELSE /\ upc' = "launch"
            /\ UNCHANGED uOutcome
    /\ UNCHANGED <<cfgVars, sessVars, fVars, uDriver, uIter, uHovers, uFinds,
                   uClickTries, uClicks, uWarnings, uHandler, uErrAt, uRaisedAt>>
    /\ UNCHANGED <<uFoundAt, uTrace>>

\* driver = webdriver.Chrome(options=options), outside the try block.
ULaunch ==
    /\ upc = "launch"
    /\ \/ /\ sessState' = [sessState EXCEPT ![NewSession] = "open"]
          /\ uDriver' = NewSession
          /\ upc' = "get"
          /\ uTrace' = Append(uTrace, "launch")
          /\ UNCHANGED uRaisedAt
       \/ /\ upc' = "raised"
          /\ uRaisedAt' = "launch"
          /\ UNCHANGED <<sessState, uDriver, uTrace>>
    /\ UNCHANGED <<cfgVars, sessOps, sessRequests, fVars, uIter, uHovers, uFinds,
                   uClickTries, uClicks, uWarnings, uHandler, uErrAt, uOutcome>>
    /\ UNCHANGED uFoundAt

\* driver.get(LIVESTREAM_URL), outside the try block.
UGet ==
    /\ upc = "get"
    /\ Invoke(uDriver, "get")
    /\ \/ /\ upc' = "waitIframe"
          /\ uTrace' = Append(uTrace, "get")
          /\ UNCHANGED uRaisedAt
       \/ /\ upc' = "raised"
          /\ uRaisedAt' = "get"
          /\ UNCHANGED uTrace
    /\ UNCHANGED <<cfgVars, sessState, sessRequests, fVars, uDriver, uIter, uHovers,
                   uFinds, uClickTries, uClicks, uWarnings, uHandler, uErrAt, uOutcome>>
    /\ UNCHANGED uFoundAt

\* Variant of UDiscover: an exception of the statement is swallowed on the
\* spot and control moves on to the next statement.
UDiscoverIgnoringFailure(here, op, next) ==
    /\ upc = here
    /\ Invoke(uDriver, op)
    /\ upc' = next
    /\ \/ uTrace' = Append(uTrace, here)
       \/ UNCHANGED uTrace
    /\ UNCHANGED <<cfgVars, sessState, sessRequests, fVars, uDriver, uIter, uHovers,
                   uFinds, uClickTries, uClicks, uWarnings, uRaisedAt, uHandler,
                   uErrAt, uOutcome, uFoundAt>>

\* A statement of the try block before the loop: it returns and control moves
\* to  next,  or it raises and the outer except block runs.
UDiscover(here, op, next) ==
    /\ upc = here
    /\ Invoke(uDriver, op)
    /\ \/ /\ upc' = next
          /\ uTrace' = Append(uTrace, here)
          /\ UNCHANGED <<uHandler, uErrAt, uOutcome>>
       \/ /\ UExcept(here)
          /\ UNCHANGED uTrace
    /\ UNCHANGED <<cfgVars, sessState, sessRequests, fVars, uDriver, uIter, uHovers,
                   uFinds, uClickTries, uClicks, uWarnings, uRaisedAt>>
    /\ UNCHANGED uFoundAt

\* WebDriverWait(driver, 10).until(presence_of_element_located(iframe))
UWaitIframe == UDiscover("waitIframe", "wait", "findIframe")

\* iframe = driver.find_element(By.TAG_NAME, "iframe")
UFindIframe == UDiscover("findIframe", "find", "switch")

\* driver.switch_to.frame(iframe)
USwitch == UDiscover("switch", "switch", "waitVideo")

\* WebDriverWait(driver, 10).until(presence_of_element_located(video))
UWaitVideo == UDiscover("waitVideo", "wait", "findVideo")

\* video_element = driver.find_element(By.TAG_NAME, "video"); the loop begins.
UFindVideo ==
    /\ upc = "findVideo"
    /\ Invoke(uDriver, "find")
    /\ \/ /\ UNextIter
          /\ uTrace' = Append(uTrace, "findVideo")
          /\ UNCHANGED <<uHandler, uErrAt>>
       \/ /\ UExcept("findVideo")
          /\ UNCHANGED <<uIter, uTrace>>
    /\ UNCHANGED <<cfgVars, sessState, sessRequests, fVars, uDriver, uHovers,
                   uFinds, uClickTries, uClicks, uWarnings, uRaisedAt>>
    /\ UNCHANGED uFoundAt

\* actions.move_to_element(video_element).perform(), outside the inner try.
UHover ==
    /\ upc = "hover"
    /\ Invoke(uDriver, "hover")
    /\ \/ /\ uHovers' = uHovers + 1
          /\ upc' = "sleep"
          /\ UNCHANGED <<uHandler, uErrAt, uOutcome>>
       \/ /\ UExcept("hover")
          /\ UNCHANGED uHovers
    /\ UNCHANGED <<cfgVars, sessState, sessRequests, fVars, uDriver, uIter, uFinds,
                   uClickTries, uClicks, uWarnings, uRaisedAt>>
    /\ UNCHANGED <<uFoundAt, uTrace>>

\* time.sleep(1), outside the inner try.
USleep ==
    /\ upc = "sleep"
    /\ \/ /\ upc' = "findMute"
          /\ UNCHANGED <<uHandler, uErrAt, uOutcome>>
       \/ UExcept("sleep")
    /\ UNCHANGED <<cfgVars, sessVars, fVars, uDriver, uIter, uHovers, uFinds,
                   uClickTries, uClicks, uWarnings, uRaisedAt>>
    /\ UNCHANGED <<uFoundAt, uTrace>>

\* mute_button = WebDriverWait(driver, 3).until(presence_of_element_located(...))
UFindMute ==
    /\ upc = "findMute"
    /\ Invoke(uDriver, "wait")
    /\ uFinds' = uFinds + 1
    /\ \/ /\ upc' = "findSvg"
          /\ uFoundAt' = uIter
          /\ UNCHANGED <<uIter, uWarnings, uOutcome>>
       \/ /\ UInnerExcept
          /\ UNCHANGED uFoundAt
    /\ UNCHANGED <<cfgVars, sessState, sessRequests, fVars, uDriver, uHovers,
                   uClickTries, uClicks, uHandler, uErrAt, uRaisedAt>>
    /\ UNCHANGED uTrace

\* Variant of UFindSvg: the lookup is outside the inner try, its exception
\* goes to the outer except block.
UFindSvgOutsideTry ==
    /\ upc = "findSvg"
    /\ Invoke(uDriver, "find")
    /\ \/ /\ upc' = "click"
          /\ UNCHANGED <<uIter, uWarnings, uOutcome, uHandler, uErrAt>>
       \/ /\ UExcept("findSvg")
          /\ UNCHANGED <<uIter, uWarnings>>
    /\ UNCHANGED <<cfgVars, sessState, sessRequests, fVars, uDriver, uHovers, uFinds,
                   uClickTries, uClicks, uRaisedAt>>
    /\ UNCHANGED <<uFoundAt, uTrace>>

\* mute_svg = mute_button.find_element(By.TAG_NAME, "svg")
UFindSvg ==
    /\ upc = "findSvg"
    /\ Invoke(uDriver, "find")
    /\ \/ /\ upc' = "click"
          /\ UNCHANGED <<uIter, uWarnings, uOutcome>>
       \/ UInnerExcept
    /\ UNCHANGED <<cfgVars, sessState, sessRequests, fVars, uDriver, uHovers, uFinds,
                   uClickTries, uClicks, uHandler, uErrAt, uRaisedAt>>
    /\ UNCHANGED <<uFoundAt, uTrace>>

\* Variant of UClick: the session is torn down after the click returned.
UClickThenQuit ==
    /\ upc = "click"
    /\ uClickTries' = uClickTries + 1
    /\ \/ /\ uClicks' = uClicks + 1
          /\ uOutcome' = "success"
          /\ upc' = "returned"
          /\ sessOps' = [sessOps EXCEPT ![uDriver] = @ \cup {"click", "quit"}]
          /\ sessState' = [sessState EXCEPT ![uDriver] = "closed"]
          /\ UNCHANGED <<uIter, uWarnings>>
       \/ /\ UInnerExcept
          /\ Invoke(uDriver, "click")
          /\ UNCHANGED <<uClicks, sessState>>
    /\ UNCHANGED <<cfgVars, sessRequests, fVars, uDriver, uHovers, uFinds,
                   uHandler, uErrAt, uRaisedAt>>
    /\ UNCHANGED <<uFoundAt, uTrace>>

\* Variant of UClick: no break after the click returned.
UClickWithoutBreak ==
    /\ upc = "click"
    /\ Invoke(uDriver, "click")
    /\ uClickTries' = uClickTries + 1
    /\ \/ /\ uClicks' = uClicks + 1
          /\ IF uIter < HoverTries
             THEN /\ uIter' = uIter + 1
                  /\ upc' = "hover"
                  /\ UNCHANGED uOutcome
             ELSE /\ upc' = "returned"
                  /\ uOutcome' = "success"
                  /\ UNCHANGED uIter
          /\ UNCHANGED uWarnings
       \/ /\ UInnerExcept
          /\ UNCHANGED uClicks
    /\ UNCHANGED <<cfgVars, sessState, sessRequests, fVars, uDriver, uHovers, uFinds,
                   uHandler, uErrAt, uRaisedAt>>
    /\ UNCHANGED <<uFoundAt, uTrace>>

\* mute_svg.click(); on return: break, the closing log line and return.
UClick ==
    /\ upc = "click"
    /\ Invoke(uDriver, "click")
    /\ uClickTries' = uClickTries + 1
    /\ \/ /\ uClicks' = uClicks + 1
          /\ uOutcome' = "success"
          /\ upc' = "returned"
          /\ UNCHANGED <<uIter, uWarnings>>
       \/ /\ UInnerExcept
          /\ UNCHANGED uClicks
    /\ UNCHANGED <<cfgVars, sessState, sessRequests, fVars, uDriver, uHovers, uFinds,
                   uHandler, uErrAt, uRaisedAt>>
    /\ UNCHANGED <<uFoundAt, uTrace>>

Unmuter ==
    \/ UCheck \/ ULaunch \/ UGet
    \/ UWaitIframe \/ UFindIframe \/ USwitch \/ UWaitVideo \/ UFindVideo
    \/ UHover \/ USleep \/ UFindMute \/ UFindSvg \/ UClick

UnmuterDone == upc \in {"returned", "raised"}

\* ------------------------------------------------------------------ system
Network == \E s \in SessionIds : Capture(s, MaxReq) \/ Respond(s)
NetworkBoth == \E s \in SessionIds : Capture(s, MaxBothReq) \/ Respond(s)

\* One call of get_m3u8_url, with the network traffic of its browser.
NextFinder == Finder \/ Network
SpecFinder == Init /\ [][NextFinder]_vars

\* One call of unmute_video, with the network traffic of its browser.
NextUnmuter == Unmuter \/ Network
SpecUnmuter == Init /\ [][NextUnmuter]_vars

\* Both procedures called from independent call sites.
Next == Finder \/ Unmuter \/ NetworkBoth
Spec == Init /\ [][Next]_vars

\* Both procedures, each running on as long as it has a statement to execute:
\* every driver call and every sleep returns or raises after a bounded time.
FairSpec == Spec /\ WF_vars(Finder) /\ WF_vars(Unmuter)

\* ================================================================ claims
\* Indexes of the entries of reqs that carry a response and whose URL
\* contains ".m3u8".
MatchingIdx(reqs) ==
    {i \in 1..Len(reqs) : reqs[i].response = "Response" /\ Contains(reqs[i].url, Marker)}

MinOf(S) == CHOOSE i \in S : \A j \in S : i <= j

\* The requests of Scenario A of the specification.
ScenarioA ==
    << [url |-> UrlMp4, response |-> "Response"],
       [url |-> UrlM3u8B, response |-> "None"],
       [url |-> UrlM3u8C, response |-> "Response"] >>

\* C1: when the scan of get_m3u8_url has run over a list in which some entry
\* has a response and a URL containing ".m3u8", the procedure's return value
\* is the URL of the first such entry in capture order; an entry without a
\* response is never the one returned, even when it comes first.
C1_FirstMatchWithResponse ==
    (fScanned # None /\ MatchingIdx(fScanned[1]) # {}) =>
        /\ fPending = Some(fScanned[1][MinOf(MatchingIdx(fScanned[1]))].url)
        /\ fpc = "returned" => fResult = fPending

C1_Witness ==
    /\ fpc = "returned"
    /\ fScanned = Some(ScenarioA)
    /\ fResult = Some(UrlM3u8C)

\* C2: once get_m3u8_url has opened a browser session, driver.quit() has been
\* invoked on it in every final state of the procedure, and whenever the
\* procedure returns (match, no match, or handled error) the session is closed.
C2_SessionTerminated ==
    /\ (fpc \in {"returned", "raised"} /\ fDriver # NoDriver) =>
           "quit" \in sessOps[fDriver]
    /\ fpc = "returned" =>
           (fDriver # NoDriver /\ sessState[fDriver] = "closed")

C2_Witness ==
    /\ fpc = "returned"
    /\ fErrAt = "get"
    /\ sessState[fDriver] = "closed"

\* C3 (as claimed): unmute_video never raises to its caller, whichever step
\* after the enabled check fails.
C3_NeverRaises == upc # "raised"

\* C4: an error raised by navigation, the observation wait or the scan in
\* get_m3u8_url is handled: it never reaches the caller, the pending return
\* value is None, and a return after it delivers None, as a run without a
\* match does.
C4_ErrorsBecomeNone ==
    fErrAt \in {"get", "sleep", "scan"} =>
        /\ fHandler
        /\ fPending = None
        /\ fpc \in {"finally", "returned", "raised"}
        /\ fpc = "raised" => fRaisedAt = "quit"
        /\ fpc = "returned" => fResult = None

C4_Witness ==
    /\ fpc = "returned"
    /\ fErrAt = "scan"
    /\ fResult = None
    /\ MatchingIdx(sessRequests[fDriver]) # {}

\* C5: when the scan of get_m3u8_url has run over a list without any entry
\* that has both a response and a URL containing ".m3u8" (the empty list
\* included), the except block is not entered and the return value is None.
C5_NoMatchIsNone ==
    (fScanned # None /\ MatchingIdx(fScanned[1]) = {}) =>
        /\ ~fHandler
        /\ fErrAt = "none"
        /\ fPending = None
        /\ fpc = "returned" => fResult = None

C5_Witness ==
    /\ fpc = "returned"
    /\ fScanned # None
    /\ \E i \in 1..Len(fScanned[1]) :
          fScanned[1][i] = [url |-> UrlM3u8B, response |-> "None"]
    /\ MatchingIdx(fScanned[1]) = {}
    /\ fResult = None

\* C6: unmute_video never terminates the session it opened: as long as it
\* holds a driver, that session is open and no quit was invoked on it.
C6_SessionLeftOpen ==
    uDriver # NoDriver =>
        /\ sessState[uDriver] = "open"
        /\ "quit" \notin sessOps[uDriver]

C6_Witness ==
    /\ upc = "returned"
    /\ uOutcome = "success"
    /\ sessState[uDriver] = "open"

\* C7: with AUTO_UNMUTE false, unmute_video goes from its first statement
\* straight to its return: no session is created, nothing is invoked on any
\* session, and no hover, find or click is performed.
C7_DisabledIsNoOp ==
    ~autoUnmute =>
        /\ upc \in {"check", "returned"}
        /\ upc = "returned" => uOutcome = "disabled"
        /\ uDriver = NoDriver
        /\ \A s \in SessionIds :
              sessState[s] = "unused" /\ sessOps[s] = {} /\ sessRequests[s] = <<>>
        /\ uIter = 0 /\ uHovers = 0 /\ uFinds = 0 /\ uClickTries = 0 /\ uClicks = 0

C7_Witness ==
    /\ ~autoUnmute
    /\ upc = "returned"
    /\ uOutcome = "disabled"

\* C8: a run of unmute_video performs at most 5 loop iterations, 5 hovers and
\* 5 mute-control waits and at most 1 successful click; once a click has
\* succeeded, no hover, mute-control wait or click follows.
C8_Counts ==
    /\ uIter <= 5 /\ uHovers <= 5 /\ uFinds <= 5
    /\ uClicks <= 1

C8_StopAfterClick ==
    uClicks >= 1 =>
        /\ uIter' = uIter /\ uHovers' = uHovers /\ uFinds' = uFinds
        /\ uClickTries' = uClickTries /\ uClicks' = uClicks
        /\ upc' = "returned"

C8_AtMostFiveThenStop == [](C8_Counts) /\ [][C8_StopAfterClick]_vars

C8_Witness ==
    /\ uIter = 5
    /\ uHovers = 5
    /\ uFinds = 5
    /\ uClicks = 1
    /\ uClickTries = 3

\* C9: when the iframe wait or the video wait of unmute_video times out, the
\* run is in the failed terminal state: it has returned normally, it performed
\* and performs no hover, mute-control wait or click, and its session is open.
C9_DiscoveryTimeoutAborts ==
    uErrAt \in {"waitIframe", "waitVideo"} =>
        /\ upc = "returned"
        /\ uOutcome = "failed"
        /\ uHandler
        /\ uIter = 0 /\ uHovers = 0 /\ uFinds = 0 /\ uClickTries = 0 /\ uClicks = 0
        /\ sessState[uDriver] = "open"
        /\ sessOps[uDriver] \cap {"hover", "click", "quit"} = {}

C9_Witness ==
    /\ uErrAt = "waitVideo"
    /\ "switch" \in sessOps[uDriver]
    /\ upc = "returned"

\* C10 (as claimed): get_m3u8_url never raises to its caller, whichever step
\* fails, the launch of the session and its termination included.
C10_NeverRaises == fpc # "raised"


\* The statements of unmute_video before the hover loop (steps 1-3).
DiscoverySteps == {"waitIframe", "findIframe", "switch", "waitVideo", "findVideo"}

\* C11 (as claimed): the outer except block of unmute_video, which ends the
\* procedure, is only ever entered from a statement of the iframe/video
\* discovery; a failure inside a hover iteration never ends the procedure
\* while iterations remain.
C11_OnlyDiscoveryAborts == uHandler => uErrAt \in DiscoverySteps


\* C12 (as claimed): once the mute control was found in an iteration and the
\* handling of that find is over, the run is in the success state with the
\* icon clicked in that same iteration and exactly one click performed.
C12_FoundMeansClicked ==
    (uFoundAt >= 1 /\ upc \notin {"findSvg", "click"}) =>
        /\ upc = "returned"
        /\ uOutcome = "success"
        /\ uIter = uFoundAt
        /\ uClickTries = 1
        /\ uClicks = 1

\* C12 (amended): the icon is looked up and clicked only in the iteration in
\* which the mute control was found; when the click returns, the run is in
\* the success state in that same iteration, with exactly one successful
\* click, and nothing of the run changes afterwards.
C12_ClickInFoundIteration ==
    /\ upc \in {"findSvg", "click"} => (uFoundAt = uIter /\ uIter \in 1..5)
    /\ uClicks >= 1 =>
          /\ upc = "returned"
          /\ uOutcome = "success"
          /\ uClicks = 1
          /\ uFoundAt = uIter
          /\ uHovers = uIter /\ uFinds = uIter
          /\ ~uHandler

C12_SuccessIsFinal == uOutcome = "success" => UNCHANGED uVars

C12_FoundAndClickedSucceeds ==
    [](C12_ClickInFoundIteration) /\ [][C12_SuccessIsFinal]_vars

\* Scenario D: the mute control is found on iteration 3 of 5 and clicked once.
C12_Witness ==
    /\ upc = "returned"
    /\ uOutcome = "success"
    /\ uIter = 3
    /\ uFoundAt = 3
    /\ uWarnings = 2
    /\ uClickTries = 1
    /\ uClicks = 1


\* C13: when the fifth mute-control wait of unmute_video is over and none of
\* the five found the control, the run is in the exhausted terminal state: it
\* has returned normally after exactly 5 hovers and 5 waits, with no click
\* attempted, 5 retry warnings, the outer except block not entered and the
\* session open.
C13_ExhaustedAfterFive ==
    (uFinds = 5 /\ uFoundAt = 0) =>
        /\ upc = "returned"
        /\ uOutcome = "exhausted"
        /\ uIter = 5 /\ uHovers = 5
        /\ uClickTries = 0 /\ uClicks = 0
        /\ uWarnings = 5
        /\ ~uHandler /\ uErrAt = "none" /\ uRaisedAt = "none"
        /\ sessState[uDriver] = "open"

C13_Witness ==
    /\ uOutcome = "exhausted"
    /\ uFinds = 5
    /\ uFoundAt = 0
    /\ uWarnings = 5


\* C14: in get_m3u8_url the captured requests are read only after navigation
\* and after the whole window of WAIT_TIME + 5 has elapsed, they are read at
\* most once (exactly once in a run without a handled error), and
\* driver.quit() is invoked only after the scan has produced its result or
\* an error has been handled.
C14_Order ==
    fDriver # NoDriver =>
        /\ fElapsed > 0 => "get" \in sessOps[fDriver]
        /\ ("requests" \in sessOps[fDriver] \/ fScanned # None) =>
              /\ "get" \in sessOps[fDriver]
              /\ fElapsed = waitTime + 5
              /\ fpc \in {"finally", "returned", "raised"}
        /\ "quit" \in sessOps[fDriver] =>
              /\ fpc \in {"returned", "raised"}
              /\ fScanned # None \/ fHandler
        /\ (fpc = "returned" /\ ~fHandler) => fScanned # None

C14_ScanOnce == fScanned # None => fScanned' = fScanned

C14_NavigateWaitScanQuit == [](C14_Order) /\ [][C14_ScanOnce]_vars

C14_Witness ==
    /\ fpc = "returned"
    /\ waitTime = 1
    /\ fElapsed = 6
    /\ fScanned # None
    /\ Len(fScanned[1]) = 2
    /\ sessState[fDriver] = "closed"


\* C15 (as claimed): every run of unmute_video eventually is in one of the
\* terminal states disabled, success, exhausted or failed, and every run of
\* get_m3u8_url eventually has returned a URL or None.
C15_Terminates ==
    /\ <>(upc = "returned" /\ uOutcome \in {"disabled", "success", "exhausted", "failed"})
    /\ <>(fpc = "returned" /\ (fResult = None \/ fResult[1] \in Urls))

\* Both procedures do stop, by returning or by raising.
BothStop == <>(FinderDone /\ UnmuterDone)


\* C16: when get_m3u8_url and unmute_video run side by side, each works on
\* the session it launched: the two drivers differ, only the finder's session
\* is ever quit or closed, no hover, click, frame switch or element lookup is
\* invoked on the finder's session, the finder's scan reads the requests of
\* its own session, and its result is a URL captured by that session (None
\* when that session has no matching request, whatever the other captured).
C16_OwnSession ==
    /\ (fDriver # NoDriver /\ uDriver # NoDriver) => fDriver # uDriver
    /\ \A s \in SessionIds :
          (sessState[s] = "closed" \/ "quit" \in sessOps[s]) => s = fDriver
    /\ uDriver # NoDriver =>
          /\ sessState[uDriver] = "open"
          /\ sessOps[uDriver] \cap {"quit", "requests"} = {}
    /\ fDriver # NoDriver =>
          sessOps[fDriver] \cap {"wait", "find", "switch", "hover", "click"} = {}
    /\ fScanned # None =>
          /\ Len(fScanned[1]) <= Len(sessRequests[fDriver])
          /\ \A i \in 1..Len(fScanned[1]) :
                fScanned[1][i].url = sessRequests[fDriver][i].url
          /\ MatchingIdx(fScanned[1]) = {} => fPending = None
    /\ fPending # None =>
          \E i \in 1..Len(sessRequests[fDriver]) :
              sessRequests[fDriver][i].url = fPending[1]

C16_ScanReadsOwn ==
    fScanned' # fScanned => fScanned' = Some(sessRequests[fDriver])

C16_Independent == [](C16_OwnSession) /\ [][C16_ScanReadsOwn]_vars

C16_Witness ==
    /\ fpc = "returned"
    /\ uDriver # NoDriver
    /\ sessState[fDriver] = "closed"
    /\ sessState[uDriver] = "open"
    /\ "hover" \in sessOps[uDriver]
    /\ MatchingIdx(sessRequests[uDriver]) # {}
    /\ fScanned = Some(<<>>)
    /\ fResult = None


\* The statements of unmute_video before the loop, in program order.
FullTrace ==
    <<"launch", "get", "waitIframe", "findIframe", "switch", "waitVideo", "findVideo">>

\* C17: mute_svg.click() is only ever called from the click position of the
\* loop, and there the session was launched and navigated, the iframe wait,
\* the frame switch and the video wait have returned, in this order, and in
\* the current iteration the hover was performed and the mute-control wait
\* returned.
C17_ClickReady ==
    upc = "click" =>
        /\ uDriver # NoDriver /\ sessState[uDriver] = "open"
        /\ uTrace = FullTrace
        /\ uIter \in 1..5
        /\ uHovers = uIter
        /\ uFinds = uIter
        /\ uFoundAt = uIter
        /\ ~uHandler

C17_ClickStep == uClickTries' # uClickTries => upc = "click"

C17_ClickOnlyAfterAllSteps == [](C17_ClickReady) /\ [][C17_ClickStep]_vars

C17_Witness ==
    /\ upc = "click"
    /\ uIter = 2
    /\ uClickTries = 1


\* A step of unmute_video in which the mute control had been found and the
\* lookup of its icon, or the click on it, raises.
IconOrClickFails ==
    \/ upc = "findSvg" /\ upc' \notin {"findSvg", "click"}
    \/ upc = "click" /\ upc' # "click" /\ uClicks' = uClicks

\* C18: a failing icon lookup or click is handled as a miss: one retry
\* warning is logged, neither the success state nor the outer except block is
\* entered, and the next iteration begins if fewer than 5 have run, else the
\* run ends exhausted. Successful clicks never exceed one while click
\* attempts may.
C18_FailedClickStep ==
    IconOrClickFails =>
        /\ uWarnings' = uWarnings + 1
        /\ uClicks' = uClicks
        /\ ~uHandler' /\ uErrAt' = "none"
        /\ IF uIter < 5
           THEN upc' = "hover" /\ uIter' = uIter + 1 /\ uOutcome' = "none"
           ELSE upc' = "returned" /\ uOutcome' = "exhausted" /\ uIter' = uIter

C18_FailedClickIsRetry == [][C18_FailedClickStep]_vars /\ [](uClicks <= 1)

C18_Witness ==
    /\ upc = "returned"
    /\ uOutcome = "success"
    /\ uClickTries = 2
    /\ uClicks = 1
    /\ uWarnings = 1

====
